---------------------------- MODULE Spec2Model ----------------------------
(***************************************************************************)
(* Model of the weather add-on: the provider client (fetch_open_meteo),   *)
(* the feature derivation of compute.py and the fetch / derive / fold      *)
(* cycle of weather/main.py.                                               *)
(*                                                                         *)
(* Representation of Python values                                         *)
(*   None            <<>>                                                  *)
(*   a number v      <<v>>     (fixed point, units given per field)        *)
(*   a str           the tuple of its characters                           *)
(*   a dict          a function whose DOMAIN is the set of its keys        *)
(*   a list          a sequence                                            *)
(* Fixed-point units: irradiance in whole W/m2, cosines, the Haurwitz      *)
(* exponential and the diffuse fraction df in 1e-6, E0 / kt / clearness    *)
(* indices in 1e-4, the daily GHI total in 1e-4 MJ/m2, the cloud mean in   *)
(* 1e-2 percent.  Divisions round down where the float code rounds to      *)
(* nearest.  A float that is positive and below the unit (the cosine of    *)
(* 90 degrees, 6.1e-17, and its products) is carried as one unit, so that  *)
(* the code's comparisons with 0 come out as they do in Python.            *)
(***************************************************************************)
EXTENDS Integers, Sequences, FiniteSets, TLC

VARIABLES
    pc,               \* position of main()'s loop
    cycle,            \* main.py:73 cycle counter
    fc,               \* result of the last fetch: [hourly |-> .., daily |-> ..]
    upcoming_hourly,  \* main.py:104
    by_day,           \* main.py:138, insertion-ordered dict as a sequence of [day, recs]
    daily_out,        \* main.py:137
    acc,              \* locals of one iteration of the per-day loop (main.py:145-155)
    err,              \* exception that ended the current cycle, "" when none
    call,             \* a direct call of a compute.py function: its name and arguments
    ret,              \* <<>> until that call returns, then <<its value>>
    mqtt,             \* main.py:49-70, the publisher main() holds (or None)
    pub,              \* the clock reading and the messages of this cycle's publish stage
    log,              \* the JSONL files: appends the disk still takes, lines of this cycle
    conn,             \* MQTTPublisher.connect: its locals, the flag and the broker's replies
    store             \* the dashboard's DataStore, its lock and the threads using it

vars == <<pc, cycle, fc, upcoming_hourly, by_day, daily_out, acc, err, call, ret,
          mqtt, pub, log, conn, store>>

----------------------------------------------------------------------------
(* Bounds of the model *)

MaxHours == 3     \* length of the hourly time list of an API response
MaxCycles == 1    \* cycles of the main loop that are explored

----------------------------------------------------------------------------
(* Python values *)

None == <<>>
Num(v) == <<v>>

\* x or 0.0 for a number-or-None x
OrZero(x) == IF x = None THEN 0 ELSE x[1]

\* truthiness of a number-or-None
TruthyNum(x) == x # None /\ x[1] # 0

\* d.get(k, default)
Get(d, k, default) == IF k \in DOMAIN d THEN d[k] ELSE default

\* {**a, **b}
Spread(a, b) ==
    [k \in (DOMAIN a) \cup (DOMAIN b) |-> IF k \in DOMAIN b THEN b[k] ELSE a[k]]

Min(a, b) == IF a <= b THEN a ELSE b
Max(a, b) == IF a >= b THEN a ELSE b

----------------------------------------------------------------------------
(* Timestamps: ISO strings and datetime.fromisoformat *)

DigitVal(c) ==
    CASE c = "0" -> 0 [] c = "1" -> 1 [] c = "2" -> 2 [] c = "3" -> 3
      [] c = "4" -> 4 [] c = "5" -> 5 [] c = "6" -> 6 [] c = "7" -> 7
      [] c = "8" -> 8 [] c = "9" -> 9

Num2(s, i) == 10 * DigitVal(s[i]) + DigitVal(s[i + 1])

IsLeap(y) == (y % 4 = 0 /\ y % 100 # 0) \/ y % 400 = 0

DaysBeforeMonth(y, m) ==
    LET cum == <<0, 31, 59, 90, 120, 151, 181, 212, 243, 273, 304, 334>>
    IN  cum[m] + (IF m > 2 /\ IsLeap(y) THEN 1 ELSE 0)

\* dt.datetime.fromisoformat(s.replace("Z", "+00:00")) for "YYYY-MM-DDTHH:MM[Z]"
fromisoformat(s) ==
    LET y == 100 * Num2(s, 1) + Num2(s, 3)
        m == Num2(s, 6)
        d == Num2(s, 9)
    IN  [year |-> y, month |-> m, day |-> d, hour |-> Num2(s, 12),
         tm_yday |-> DaysBeforeMonth(y, m) + d]

\* total order of datetimes of one year range, in hours
HourOrd(t) == ((t.year * 366) + t.tm_yday) * 24 + t.hour

\* open_meteo._iso_z
_iso_z(ts) == IF Len(ts) > 0 /\ ts[Len(ts)] = "Z" THEN ts ELSE Append(ts, "Z")

----------------------------------------------------------------------------
(* math.cos(math.radians(z)) and the Haurwitz exponential, tabulated at    *)
(* whole degrees in units of 1e-6                                          *)

CosTable ==
    <<1000000, 999848, 999391, 998630, 997564, 996195, 994522, 992546, 990268,
      987688, 984808, 981627, 978148, 974370, 970296, 965926, 961262, 956305,
      951057, 945519, 939693, 933580, 927184, 920505, 913545, 906308, 898794,
      891007, 882948, 874620, 866025, 857167, 848048, 838671, 829038, 819152,
      809017, 798636, 788011, 777146, 766044, 754710, 743145, 731354, 719340,
      707107, 694658, 681998, 669131, 656059, 642788, 629320, 615661, 601815,
      587785, 573576, 559193, 544639, 529919, 515038, 500000, 484810, 469472,
      453990, 438371, 422618, 406737, 390731, 374607, 358368, 342020, 325568,
      309017, 292372, 275637, 258819, 241922, 224951, 207912, 190809, 173648,
      156434, 139173, 121869, 104528, 87156, 69756, 52336, 34899, 17452>>

\* max(0.0, math.cos(_to_rad(zenith_deg))) for a whole zenith of at most 180
\* degrees; math.cos(math.radians(90)) is 6.123e-17, not 0.0
CosZ(zenith_deg) ==
    IF zenith_deg < 90 THEN CosTable[zenith_deg + 1]
    ELSE IF zenith_deg = 90 THEN 1
    ELSE 0

ExpTable ==
    <<942707, 942698, 942673, 942630, 942571, 942494, 942400, 942289, 942160,
      942014, 941849, 941666, 941465, 941245, 941006, 940747, 940468, 940169,
      939849, 939507, 939144, 938758, 938349, 937916, 937458, 936974, 936465,
      935928, 935362, 934767, 934142, 933484, 932793, 932068, 931306, 930507,
      929668, 928787, 927862, 926891, 925872, 924802, 923677, 922496, 921254,
      919948, 918573, 917126, 915601, 913994, 912299, 910509, 908617, 906616,
      904497, 902250, 899866, 897333, 894637, 891763, 888696, 885416, 881903,
      878132, 874075, 869701, 864973, 859849, 854278, 848203, 841555, 834250,
      826192, 817260, 807309, 796157, 783581, 769296, 752937, 734027, 711936,
      685810, 654468, 616236, 568679, 508165, 429214, 323896, 184415, 34026>>

\* math.exp(-0.059 / max(1e-6, cosz)) for a whole zenith; at 90 degrees it is
\* math.exp(-59000.0), which underflows to 0.0
ExpHaurwitz(zenith_deg) == IF zenith_deg < 90 THEN ExpTable[zenith_deg + 1] ELSE 0

\* 1.0 + 0.033 * math.cos(2 * math.pi * n / 365.0), in 1e-4, for the days
\* of the year the model's timestamps fall on
E0(n) == CASE n = 153 -> 9712 [] n = 154 -> 9709

----------------------------------------------------------------------------
(* compute.py *)

I_SC == 1367

\* astral's elevation / azimuth at the configured site (latitude 0, longitude 0),
\* in whole degrees
sun_elevation(when_utc) ==
    CASE when_utc.tm_yday = 153 /\ when_utc.hour = 7 -> 14
      [] when_utc.tm_yday = 153 /\ when_utc.hour = 10 -> 54
      [] when_utc.tm_yday = 153 /\ when_utc.hour = 23 -> 0 - 64
      [] when_utc.tm_yday = 154 /\ when_utc.hour = 0 -> 0 - 68

sun_azimuth(when_utc) ==
    CASE when_utc.tm_yday = 153 /\ when_utc.hour = 7 -> 67
      [] when_utc.tm_yday = 153 /\ when_utc.hour = 10 -> 50
      [] when_utc.tm_yday = 153 /\ when_utc.hour = 23 -> 329
      [] when_utc.tm_yday = 154 /\ when_utc.hour = 0 -> 1

solar_geometry(when_utc) ==
    LET el == sun_elevation(when_utc)
        az == sun_azimuth(when_utc)
        zen == Max(0, 90 - el)
    IN  [sun_elevation_deg |-> Num(el),
         sun_azimuth_deg |-> Num(az),
         sun_zenith_deg |-> Num(zen)]

extraterrestrial_horizontal(when_utc, zenith_deg) ==
    LET cosz == CosZ(zenith_deg)
    IN  IF cosz <= 0 THEN 0
        ELSE Max(1, (((I_SC * E0(when_utc.tm_yday)) \div 10000) * cosz) \div 1000000)

clearsky_ghi_haurwitz(zenith_deg) ==
    LET cosz == CosZ(zenith_deg)
    IN  IF cosz <= 0 THEN 0
        ELSE (((1098 * cosz) \div 1000) * (ExpHaurwitz(zenith_deg) \div 1000)) \div 1000000

\* floor(a * kt / 10000) for a clearness index kt (1e-4, at most 20000),
\* computed in two parts to stay within 32 bits
TimesKt(a, kt) == (a \div 10000) * kt + ((a % 10000) * kt) \div 10000

\* compute.py:65, 1.0 - 0.09 * kt (kt in 1e-4, the result in 1e-6)
ErbsLinear(kt) == 1000000 - 9 * kt

\* variant: the quadratic coefficient 4.388 mistyped as 4.838
ErbsQuarticMistyped(kt) ==
    LET h3 == TimesKt(12336000, kt) - 16638000
        h2 == TimesKt(h3, kt) + 4838000
        h1 == TimesKt(h2, kt) - 160400
    IN  TimesKt(h1, kt) + 951100

\* compute.py:67, the quartic in Horner form (kt in 1e-4, the result in 1e-6)
ErbsQuartic(kt) ==
    LET h3 == TimesKt(12336000, kt) - 16638000
        h2 == TimesKt(h3, kt) + 4388000
        h1 == TimesKt(h2, kt) - 160400
    IN  TimesKt(h1, kt) + 951100

\* compute.py:64-70, the Erbs diffuse fraction (1e-6) of a clearness index
\* kt (1e-4)
ErbsDf(kt) ==
    LET df == IF kt <= 2200 THEN ErbsLinear(kt)
              ELSE IF kt <= 8000 THEN ErbsQuartic(kt)
              ELSE 165000
    IN  Max(0, Min(1000000, df))

\* variant: the beam term is not projected back by the cosine
erbs_decomposition_unprojected(ghi, ghi0, zenith_deg) ==
    LET cosz == CosZ(zenith_deg)
    IN  IF ghi <= 0 \/ cosz <= 0 \/ ghi0 <= 0
        THEN [dni |-> 0, dhi |-> Max(0, ghi)]
        ELSE LET kt == Min(20000, (ghi * 10000) \div ghi0)
                 dhi == (ErbsDf(kt) * ghi) \div 1000000
             IN  [dni |-> Max(0, ghi - dhi), dhi |-> dhi]

erbs_decomposition(ghi, ghi0, zenith_deg) ==
    LET cosz == CosZ(zenith_deg)
    IN  IF ghi <= 0 \/ cosz <= 0 \/ ghi0 <= 0
        THEN [dni |-> 0, dhi |-> Max(0, ghi)]
        ELSE LET kt == Min(20000, (ghi * 10000) \div ghi0)
                 dhi == (ErbsDf(kt) * ghi) \div 1000000
                 dni == Max(0, ((ghi - dhi) * 1000000) \div Max(1, cosz))
             IN  [dni |-> dni, dhi |-> dhi]

\* variant: the threshold itself does not count as sunshine
sunshine_duration_hour_above(ghi_w_m2) ==
    IF OrZero(ghi_w_m2) > 120 THEN 3600 ELSE 0

sunshine_duration_hour_from_ghi(ghi_w_m2) ==
    IF OrZero(ghi_w_m2) >= 120 THEN 3600 ELSE 0

\* the locals of derive_hourly_features up to line 108
DeriveLocals(ts_utc, raw) ==
    LET sun == solar_geometry(ts_utc)
        zen == sun.sun_zenith_deg[1]
        ghi0 == extraterrestrial_horizontal(ts_utc, zen)
        ghi_cs == clearsky_ghi_haurwitz(zen)
        ghi == OrZero(Get(raw, "ghi_w_m2", None))
        both == Get(raw, "dni_w_m2", None) # None /\ Get(raw, "dhi_w_m2", None) # None
        ed == erbs_decomposition(ghi, ghi0, zen)
        dni == IF both THEN OrZero(Get(raw, "dni_w_m2", None)) ELSE ed.dni
        dhi == IF both THEN OrZero(Get(raw, "dhi_w_m2", None)) ELSE ed.dhi
        k_ghi == IF ghi_cs > 0 THEN (ghi * 10000) \div ghi_cs ELSE 0
        k_dni == IF ghi_cs > 0 /\ CosZ(zen) > 0
                 THEN (dni * 10000) \div ((ghi_cs * 1000000) \div Max(1, CosZ(zen)))
                 ELSE 0
    IN  [sun |-> sun, zen |-> zen, ghi0 |-> ghi0, ghi_cs |-> ghi_cs, ghi |-> ghi,
         dni |-> dni, dhi |-> dhi, k_ghi |-> k_ghi, k_dni |-> k_dni]

\* variant: the decomposition is emitted and overrides the provider's values
derive_hourly_features_erbs_override(ts_utc, raw) ==
    LET l == DeriveLocals(ts_utc, raw)
        ed == erbs_decomposition(l.ghi, l.ghi0, l.zen)
    IN  Spread(l.sun,
               [ghi_cs_w_m2 |-> Num(l.ghi_cs),
                dni_w_m2 |-> Num(ed.dni),
                dhi_w_m2 |-> Num(ed.dhi),
                k_ghi |-> Num(Max(0, Min(20000, l.k_ghi))),
                k_dni |-> Num(Max(0, Min(20000, l.k_dni))),
                sunshine_duration_s_hour |->
                    Num(sunshine_duration_hour_from_ghi(Get(raw, "ghi_w_m2", None)))])

\* variant: the normalised GHI is emitted as well
derive_hourly_features_emits_ghi(ts_utc, raw) ==
    LET l == DeriveLocals(ts_utc, raw)
    IN  Spread(l.sun,
               [ghi_cs_w_m2 |-> Num(l.ghi_cs),
                ghi_w_m2 |-> Num(l.ghi),
                k_ghi |-> Num(Max(0, Min(20000, l.k_ghi))),
                k_dni |-> Num(Max(0, Min(20000, l.k_dni))),
                sunshine_duration_s_hour |->
                    Num(sunshine_duration_hour_from_ghi(Get(raw, "ghi_w_m2", None)))])

\* variant: the clearness indices are emitted without the clamp to [0, 2]
derive_hourly_features_unclamped(ts_utc, raw) ==
    LET l == DeriveLocals(ts_utc, raw)
    IN  Spread(l.sun,
               [ghi_cs_w_m2 |-> Num(l.ghi_cs),
                k_ghi |-> Num(l.k_ghi),
                k_dni |-> Num(l.k_dni),
                sunshine_duration_s_hour |->
                    Num(sunshine_duration_hour_from_ghi(Get(raw, "ghi_w_m2", None)))])

derive_hourly_features(ts_utc, raw) ==
    LET l == DeriveLocals(ts_utc, raw)
    IN  Spread(l.sun,
               [ghi_cs_w_m2 |-> Num(l.ghi_cs),
                k_ghi |-> Num(Max(0, Min(20000, l.k_ghi))),
                k_dni |-> Num(Max(0, Min(20000, l.k_dni))),
                sunshine_duration_s_hour |->
                    Num(sunshine_duration_hour_from_ghi(Get(raw, "ghi_w_m2", None)))])

----------------------------------------------------------------------------
(* Configuration (addon_config.py defaults) *)

hourly_horizon_h == 72

Config ==
    [site_id |-> "default", latitude |-> 0, longitude |-> 0, timezone |-> "UTC",
     provider_model |-> "auto", data_version |-> "1.0",
     pv_capacity_kw |-> 3, tilt_deg |-> 35, albedo |-> 20,
     gamma_p_pct_per_c |-> 0 - 4, noct_cell_temp_c |-> 45, inverter_ac_limit_kw |-> 3]

----------------------------------------------------------------------------
(* The Open-Meteo responses the model draws from *)

HourStamps ==
    << <<"2","0","2","4","-","0","6","-","0","1","T","0","7",":","0","0">>,
       <<"2","0","2","4","-","0","6","-","0","1","T","1","0",":","0","0">>,
       <<"2","0","2","4","-","0","6","-","0","1","T","2","3",":","0","0">> ,
       <<"2","0","2","4","-","0","6","-","0","2","T","0","0",":","0","0">> >>

Day1 == <<"2","0","2","4","-","0","6","-","0","1">>
Day2 == <<"2","0","2","4","-","0","6","-","0","2">>

Sunrise1 == <<"2","0","2","4","-","0","6","-","0","1","T","0","5",":","5","3">>
Sunset1 == <<"2","0","2","4","-","0","6","-","0","1","T","1","8",":","0","7">>

GhiValues == {None, Num(0), Num(500), Num(1000)}
SunshineValues == {None, Num(0), Num(30000)}

\* the elements of a set of indices in ascending order
RECURSIVE Ascending(_)
Ascending(I) ==
    IF I = {} THEN <<>>
    ELSE LET m == CHOOSE x \in I : \A y \in I : x <= y
         IN  <<m>> \o Ascending(I \ {m})

\* hourly time lists: the ascending selections of at most MaxHours stamps
HourlyTimes ==
    { [i \in 1..Cardinality(I) |-> HourStamps[Ascending(I)[i]]] :
        I \in { J \in SUBSET (1..Len(HourStamps)) : Cardinality(J) <= MaxHours } }

\* the "hourly" object of a response: the time list, the GHI column (missing or
\* any values), temperature, and the optional cloud / direct / diffuse columns
\* either all present or all missing
HourlyObjects ==
    UNION { UNION { { [time |-> t, temperature_2m |-> [i \in 1..Len(t) |-> Num(20)]]
                        @@ g @@ o :
                      o \in { <<>>,
                              [cloudcover |-> [i \in 1..Len(t) |-> Num(20 * i)],
                               direct_radiation |-> [i \in 1..Len(t) |-> Num(300)],
                               diffuse_radiation |-> [i \in 1..Len(t) |-> Num(100)]] } } :
                    g \in { <<>> } \cup
                          { [shortwave_radiation |-> c] : c \in [1..Len(t) -> GhiValues] } } :
            t \in HourlyTimes }

DailyTimes == { <<>>, <<Day1>>, <<Day1, Day2>> }

DailyObjects ==
    UNION { { [time |-> t,
               sunrise |-> [i \in 1..Len(t) |-> Sunrise1],
               sunset |-> [i \in 1..Len(t) |-> Sunset1],
               precipitation_sum |-> [i \in 1..Len(t) |-> Num(2)],
               temperature_2m_max |-> [i \in 1..Len(t) |-> Num(25)],
               temperature_2m_min |-> [i \in 1..Len(t) |-> Num(11)],
               wind_speed_10m_max |-> [i \in 1..Len(t) |-> Num(7)]] @@ s :
              s \in { <<>> } \cup
                    { [sunshine_duration |-> c] : c \in [1..Len(t) -> SunshineValues] } } :
            t \in DailyTimes }

\* datetime.now(timezone.utc) truncated to the hour, as seen by the fetch
Nows == { HourOrd(fromisoformat(HourStamps[1])), HourOrd(fromisoformat(HourStamps[2])) }

----------------------------------------------------------------------------
(* providers/open_meteo.py *)

\* _get / _d: data.get(section, {}).get(name, []) or [default] * len(time)
Column(section, name, n) ==
    LET col == Get(section, name, <<>>)
    IN  IF col = <<>> THEN [i \in 1..n |-> None] ELSE col

HourlyRecord(hourly, i) ==
    LET n == Len(Get(hourly, "time", <<>>))
    IN  [ts_utc |-> _iso_z(hourly.time[i]),
         temp_2m_c |-> Column(hourly, "temperature_2m", n)[i],
         relative_humidity_pct |-> Column(hourly, "relative_humidity_2m", n)[i],
         dew_point_c |-> Column(hourly, "dewpoint_2m", n)[i],
         mslp_hpa |-> Column(hourly, "pressure_msl", n)[i],
         precip_mm |-> Column(hourly, "precipitation", n)[i],
         precip_probability_pct |-> Column(hourly, "precipitation_probability", n)[i],
         cloud_cover_pct |-> Column(hourly, "cloudcover", n)[i],
         ghi_w_m2 |-> Column(hourly, "shortwave_radiation", n)[i],
         dni_w_m2 |-> Column(hourly, "direct_radiation", n)[i],
         dhi_w_m2 |-> Column(hourly, "diffuse_radiation", n)[i],
         wind_speed_10m_ms |-> Column(hourly, "windspeed_10m", n)[i],
         wind_dir_10m_deg |-> Column(hourly, "winddirection_10m", n)[i],
         wind_gust_10m_ms |-> Column(hourly, "windgusts_10m", n)[i],
         visibility_m |-> Column(hourly, "visibility", n)[i]]

DailyRecord(daily, i) ==
    LET n == Len(Get(daily, "time", <<>>))
        sr == Column(daily, "sunrise", n)[i]
        ss == Column(daily, "sunset", n)[i]
    IN  [date_utc |-> daily.time[i],
         sunrise |-> IF sr # None THEN _iso_z(sr) ELSE None,
         sunset |-> IF ss # None THEN _iso_z(ss) ELSE None,
         sunshine_duration_s |-> Column(daily, "sunshine_duration", n)[i],
         precip_day_total_mm |-> Column(daily, "precipitation_sum", n)[i],
         precip_probability_max_pct |-> Column(daily, "precipitation_probability_max", n)[i],
         temp_day_max_c |-> Column(daily, "temperature_2m_max", n)[i],
         temp_day_min_c |-> Column(daily, "temperature_2m_min", n)[i],
         wind_day_max_ms |-> Column(daily, "wind_speed_10m_max", n)[i]]

fetch_open_meteo(data, now) ==
    LET htime == Get(data.hourly, "time", <<>>)
        dtime == Get(data.daily, "time", <<>>)
        hourly == [i \in 1..Len(htime) |-> HourlyRecord(data.hourly, i)]
        horizon_end == now + hourly_horizon_h
        InHorizon(h) == LET t == HourOrd(fromisoformat(h.ts_utc))
                        IN  now <= t /\ t <= horizon_end
    IN  [hourly |-> SelectSeq(hourly, InHorizon),
         daily |-> [i \in 1..Len(dtime) |-> DailyRecord(data.daily, i)]]

----------------------------------------------------------------------------
(* weather/main.py: one cycle of the main loop *)

\* main.py:115-128, the hourly output record
HourlyRec(h, derived) ==
    Spread(Spread([ts_utc |-> h.ts_utc,
                   provider |-> "open-meteo",
                   provider_model |-> Config.provider_model,
                   site_id |-> Config.site_id,
                   latitude |-> Config.latitude,
                   longitude |-> Config.longitude,
                   timezone |-> Config.timezone,
                   data_version |-> Config.data_version],
                  h),
           derived)

\* variant: the key keeps the hour, r["ts_utc"][0:13]
DayKeyWithHour(r) == SubSeq(r.ts_utc, 1, Min(13, Len(r.ts_utc)))

\* main.py:140, r["ts_utc"][0:10]
DayKey(r) == SubSeq(r.ts_utc, 1, Min(10, Len(r.ts_utc)))

\* main.py:141, by_day.setdefault(day, []).append(r)
SetDefaultAppend(groups, day, r) ==
    IF \E i \in 1..Len(groups) : groups[i].day = day
    THEN [i \in 1..Len(groups) |->
            IF groups[i].day = day
            THEN [groups[i] EXCEPT !.recs = Append(@, r)]
            ELSE groups[i]]
    ELSE Append(groups, [day |-> day, recs |-> <<r>>])

\* main.py:139-141, the grouping loop over the first n records
RECURSIVE GroupByDay(_, _)
GroupByDay(recs, n) ==
    IF n = 0 THEN <<>>
    ELSE SetDefaultAppend(GroupByDay(recs, n - 1), DayKey(recs[n]), recs[n])

\* float(x) raises TypeError on None
FloatRaises(x) == x = None

\* main.py:148-153: does the inner loop over the first n records of a group raise
RECURSIVE FoldRaises(_, _)
FoldRaises(recs, n) ==
    IF n = 0 THEN FALSE
    ELSE \/ FoldRaises(recs, n - 1)
         \/ FloatRaises(Get(recs[n], "ghi_w_m2", Num(0)))
         \/ FloatRaises(Get(recs[n], "cloud_cover_pct", Num(0)))
         \/ FloatRaises(Get(recs[n], "sunshine_duration_s_hour", Num(0)))

\* variant: the GHI total is assigned, not accumulated
RECURSIVE FoldSumsAssigned(_, _)
FoldSumsAssigned(recs, n) ==
    IF n = 0 THEN [ghi_mj_m2 |-> 0, cloud_sum |-> 0, sunshine_s |-> 0]
    ELSE LET p == FoldSumsAssigned(recs, n - 1)
             r == recs[n]
         IN  [ghi_mj_m2 |-> (Get(r, "ghi_w_m2", Num(0))[1] * 3600) \div 100,
              cloud_sum |-> p.cloud_sum + Get(r, "cloud_cover_pct", Num(0))[1],
              sunshine_s |-> p.sunshine_s + Get(r, "sunshine_duration_s_hour", Num(0))[1]]

\* main.py:145-153: the three sums after the first n records of a group
\* (ghi_mj_m2 in 1e-4 MJ/m2: ghi * 3600.0 / 1e6)
RECURSIVE FoldSums(_, _)
FoldSums(recs, n) ==
    IF n = 0 THEN [ghi_mj_m2 |-> 0, cloud_sum |-> 0, sunshine_s |-> 0]
    ELSE LET p == FoldSums(recs, n - 1)
             r == recs[n]
         IN  [ghi_mj_m2 |-> p.ghi_mj_m2 + (Get(r, "ghi_w_m2", Num(0))[1] * 3600) \div 100,
              cloud_sum |-> p.cloud_sum + Get(r, "cloud_cover_pct", Num(0))[1],
              sunshine_s |-> p.sunshine_s + Get(r, "sunshine_duration_s_hour", Num(0))[1]]

\* variant: the cloud sum is divided by the 24 hours of a day
CloudMeanOver24(cloud_sum, n) == (cloud_sum * 100) \div 24

\* main.py:155, cloud_sum / max(1, len(recs)), in 1e-2 percent
CloudMean(cloud_sum, n) == (cloud_sum * 100) \div Max(1, n)

\* variant: the provider's record is taken by position, not by date
FindDailyByPosition(daily, day) == IF Len(daily) > 0 THEN daily[1] ELSE <<>>

\* main.py:157, next((d for d in fc["daily"] if d["date_utc"] == day), {})
FindDaily(daily, day) ==
    IF \E i \in 1..Len(daily) : daily[i].date_utc = day
    THEN daily[CHOOSE i \in 1..Len(daily) :
                 /\ daily[i].date_utc = day
                 /\ \A j \in 1..(i - 1) : daily[j].date_utc # day]
    ELSE <<>>

\* variant: the provider's value wins whenever it is not None, zero included
SunshineDailyNotNone(dprov, sunshine_s) ==
    IF Get(dprov, "sunshine_duration_s", None) # None
    THEN Get(dprov, "sunshine_duration_s", None)
    ELSE Num(sunshine_s)

\* main.py:169, dprov.get("sunshine_duration_s") or sunshine_s
SunshineDaily(dprov, sunshine_s) ==
    IF TruthyNum(Get(dprov, "sunshine_duration_s", None))
    THEN Get(dprov, "sunshine_duration_s", None)
    ELSE Num(sunshine_s)

\* variant: the cloud mean is read from the provider's daily record
DailyRecCloudFromProvider(day, dprov, a) ==
    [date_utc |-> day,
     provider |-> "open-meteo",
     provider_model |-> Config.provider_model,
     site_id |-> Config.site_id,
     latitude |-> Config.latitude,
     longitude |-> Config.longitude,
     timezone |-> Config.timezone,
     data_version |-> Config.data_version,
     sunrise |-> Get(dprov, "sunrise", None),
     sunset |-> Get(dprov, "sunset", None),
     sunshine_duration_s |-> SunshineDaily(dprov, a.sunshine_s),
     ghi_daily_total_mj_m2 |-> Num(a.ghi_mj_m2),
     temp_day_max_c |-> Get(dprov, "temp_day_max_c", None),
     temp_day_min_c |-> Get(dprov, "temp_day_min_c", None),
     cloud_cover_day_mean_pct |-> Get(dprov, "cloud_cover_day_mean_pct", None),
     precip_day_total_mm |-> Get(dprov, "precip_day_total_mm", None),
     wind_day_max_ms |-> Get(dprov, "wind_day_max_ms", None),
     pv_capacity_kw |-> Config.pv_capacity_kw,
     tilt_deg |-> Config.tilt_deg,
     albedo |-> Config.albedo,
     gamma_p_pct_per_c |-> Config.gamma_p_pct_per_c,
     noct_cell_temp_c |-> Config.noct_cell_temp_c,
     inverter_ac_limit_kw |-> Config.inverter_ac_limit_kw]

\* main.py:158-183
DailyRec(day, dprov, a) ==
    [date_utc |-> day,
     provider |-> "open-meteo",
     provider_model |-> Config.provider_model,
     site_id |-> Config.site_id,
     latitude |-> Config.latitude,
     longitude |-> Config.longitude,
     timezone |-> Config.timezone,
     data_version |-> Config.data_version,
     sunrise |-> Get(dprov, "sunrise", None),
     sunset |-> Get(dprov, "sunset", None),
     sunshine_duration_s |-> SunshineDaily(dprov, a.sunshine_s),
     ghi_daily_total_mj_m2 |-> Num(a.ghi_mj_m2),
     temp_day_max_c |-> Get(dprov, "temp_day_max_c", None),
     temp_day_min_c |-> Get(dprov, "temp_day_min_c", None),
     cloud_cover_day_mean_pct |-> Num(a.cloud_mean),
     precip_day_total_mm |-> Get(dprov, "precip_day_total_mm", None),
     wind_day_max_ms |-> Get(dprov, "wind_day_max_ms", None),
     pv_capacity_kw |-> Config.pv_capacity_kw,
     tilt_deg |-> Config.tilt_deg,
     albedo |-> Config.albedo,
     gamma_p_pct_per_c |-> Config.gamma_p_pct_per_c,
     noct_cell_temp_c |-> Config.noct_cell_temp_c,
     inverter_ac_limit_kw |-> Config.inverter_ac_limit_kw]

\* main.py:104-134 as a function of the fetched hourly list: the records the
\* hourly loop appends to upcoming_hourly
DeriveBatch(hourly) ==
    [i \in 1..Len(hourly) |->
        HourlyRec(hourly[i], derive_hourly_features(fromisoformat(hourly[i].ts_utc), hourly[i]))]

\* main.py:143-186 as a function of the groups: daily_out after the loop went
\* through the first n groups, and whether a fold raised (the loop ends there)
RECURSIVE FoldGroups(_, _, _)
FoldGroups(groups, daily, n) ==
    IF n = 0 THEN [out |-> <<>>, raised |-> FALSE]
    ELSE LET p == FoldGroups(groups, daily, n - 1)
             g == groups[n]
             sums == FoldSums(g.recs, Len(g.recs))
             a == [day |-> g.day] @@ sums
                    @@ [cloud_mean |-> CloudMean(sums.cloud_sum, Len(g.recs))]
         IN  IF p.raised THEN p
             ELSE IF FoldRaises(g.recs, Len(g.recs)) THEN [out |-> p.out, raised |-> TRUE]
             ELSE [out |-> Append(p.out, DailyRec(g.day, FindDaily(daily, g.day), a)),
                   raised |-> FALSE]

\* main.py:104-186 as a function of the fetch result: the aggregates of a cycle
CycleDaily(hourly, daily) ==
    LET groups == GroupByDay(DeriveBatch(hourly), Len(hourly))
    IN  FoldGroups(groups, daily, Len(groups)).out

----------------------------------------------------------------------------
(* main.py:188-238, the publish stage                                      *)

\* main.py:204-215, the metrics of the current hour in publishing order
HourlyMetrics ==
    <<"ghi_w_m2", "dni_w_m2", "dhi_w_m2", "k_ghi", "sun_elevation_deg",
      "sun_azimuth_deg", "cloud_cover_pct", "temp_2m_c", "wind_speed_10m_ms",
      "precip_mm", "precip_probability_pct", "sunshine_duration_s_hour">>

\* main.py:229-233, the metrics of pub_day in publishing order
DayMetrics ==
    <<"ghi_daily_total_mj_m2", "sunshine_duration_s", "precip_day_total_mm",
      "temp_day_max_c", "cloud_cover_day_mean_pct">>

\* variant: the first record is taken as the current hour whatever its time
CurAny(hourly, now, i) ==
    IF Len(hourly) = 0 THEN None ELSE <<hourly[1]>>

\* main.py:193-198, the scan from record i on: cur is None (<<>>) or <<r>>
\* for the first r with ts >= now
RECURSIVE Cur(_, _, _)
Cur(hourly, now, i) ==
    IF i > Len(hourly) THEN None
    ELSE IF HourOrd(fromisoformat(hourly[i].ts_utc)) >= now THEN <<hourly[i]>>
    ELSE Cur(hourly, now, i + 1)

\* mqtt_helper.py:66-71, publish_json hands one message to the client; a topic
\* is the sequence of the segments of its suffix
Message(topic, payload, retain) ==
    [topic |-> topic, payload |-> payload, retain |-> retain]

\* main.py:199-215
HourlyMessages(hourly, now) ==
    LET cur == Cur(hourly, now, 1)
    IN  IF cur = None THEN <<>>
        ELSE [m \in 1..Len(HourlyMetrics) |->
                Message(<<"hourly", HourlyMetrics[m]>>,
                        [ts_utc |-> cur[1].ts_utc,
                         value |-> Get(cur[1], HourlyMetrics[m], Num(0))],
                        FALSE)]

\* main.py:216-217
SeriesMessage(daily) ==
    Message(<<"daily", "ghi_daily_total_mj_m2">>,
            [series |-> [i \in 1..Len(daily) |->
                            [date_utc |-> daily[i].date_utc,
                             value |-> Get(daily[i], "ghi_daily_total_mj_m2", Num(0))]]],
            TRUE)

\* main.py:222-223, find_day from aggregate i on: None or <<d>>
RECURSIVE FindDay(_, _, _)
FindDay(daily, key, i) ==
    IF i > Len(daily) THEN None
    ELSE IF daily[i].date_utc = key THEN <<daily[i]>>
    ELSE FindDay(daily, key, i + 1)

\* main.py:226-233
PubDay(prefix, d) ==
    IF d = None THEN <<>>
    ELSE [m \in 1..Len(DayMetrics) |->
            Message(<<"daily", prefix, DayMetrics[m]>>,
                    [date_utc |-> d[1].date_utc,
                     value |-> Get(d[1], DayMetrics[m], Num(0))],
                    TRUE)]

DigitChars == <<"0", "1", "2", "3", "4", "5", "6", "7", "8", "9">>

\* main.py:221, (date + timedelta(days=1)).isoformat() for a date that is
\* not the last of its month
Tomorrow(date) ==
    LET d == Num2(date, 9) + 1
    IN  [i \in 1..10 |-> IF i = 9 THEN DigitChars[(d \div 10) + 1]
                         ELSE IF i = 10 THEN DigitChars[(d % 10) + 1]
                         ELSE date[i]]

\* main.py:190-236 when the clock reads the hour of stamp: the messages handed
\* to the client, in order (both clock readings of the stage fall on one date)
Published(hourly, daily, stamp) ==
    LET today == [i \in 1..10 |-> stamp[i]]
    IN  HourlyMessages(hourly, HourOrd(fromisoformat(stamp)))
          \o <<SeriesMessage(daily)>>
          \o PubDay("today", FindDay(daily, today, 1))
          \o PubDay("tomorrow", FindDay(daily, Tomorrow(today), 1))

\* the hours the clock may read in the publish stage
PublishStamps == {HourStamps[1], HourStamps[2]}

----------------------------------------------------------------------------
(* log_writer.py:26-35, append_jsonl                                       *)

\* open() or write() raises OSError once the disk takes no more appends; free
\* is None (<<>>) for a disk that never fills
CanAppend == log.free = None \/ log.free[1] > 0

\* one more line in the files of kind prefix
Appended(prefix) ==
    [log EXCEPT ![prefix] = @ + 1,
                !.free = IF @ = None THEN @ ELSE <<@[1] - 1>>]

NoAcc == <<>>
NoFc == [hourly |-> <<>>, daily |-> <<>>]
NoCall == [f |-> ""]
NoPub == [now |-> None, msgs |-> <<>>]
NoLog == [free |-> None, hourly |-> 0, daily |-> 0]
NoMqtt == [client |-> FALSE, connected |-> FALSE]
NoConn == [pc |-> "unused"]
NoStore == [lock |-> ""]

\* main.py:49-74 with MQTT disabled or the publisher's creation failed
\* (mqtt is None), and a disk that takes every append
Init ==
    /\ pc = "top"
    /\ cycle = 0
    /\ fc = NoFc
    /\ upcoming_hourly = <<>>
    /\ by_day = <<>>
    /\ daily_out = <<>>
    /\ acc = NoAcc
    /\ err = ""
    /\ call = NoCall
    /\ ret = <<>>
    /\ mqtt = NoMqtt
    /\ pub = NoPub
    /\ log = NoLog
    /\ conn = NoConn
    /\ store = NoStore

\* variant: a logged fetch error ends the loop
FetchFailExits ==
    /\ pc = "fetch"
    /\ cycle <= MaxCycles
    /\ err' = "FetchError"
    /\ pc' = "exit"
    /\ UNCHANGED <<cycle, fc, upcoming_hourly, by_day, daily_out, acc, call, ret,
                   mqtt, pub, log, conn, store>>

\* variant: a fold that raises is skipped and the cycle goes on to publish
FoldDayContinues ==
    /\ pc = "fold"
    /\ Len(daily_out) < Len(by_day)
    /\ LET g == by_day[Len(daily_out) + 1]
           n == Len(g.recs)
       IN  IF FoldRaises(g.recs, n)
           THEN /\ err' = "TypeError"
                /\ pc' = "publish"
                /\ acc' = NoAcc
           ELSE /\ acc' = [day |-> g.day] @@ FoldSums(g.recs, n)
                            @@ [cloud_mean |-> CloudMean(FoldSums(g.recs, n).cloud_sum, n)]
                /\ pc' = "merge"
                /\ err' = err
    /\ UNCHANGED <<cycle, fc, upcoming_hourly, by_day, daily_out, call, ret,
                   mqtt, pub, log, conn, store>>

\* main.py:74-76, the top of the loop: the counter goes up; the model follows
\* the log lines and the messages of the running cycle
StartCycle ==
    /\ pc = "top"
    /\ cycle <= MaxCycles
    /\ cycle' = cycle + 1
    /\ pub' = NoPub
    /\ log' = [log EXCEPT !.hourly = 0, !.daily = 0]
    /\ pc' = "fetch"
    /\ UNCHANGED <<fc, upcoming_hourly, by_day, daily_out, acc, err, call, ret,
                   mqtt, conn, store>>

\* main.py:77-87 and 104: the fetch returns; err names the exception that
\* ended the last cycle until a fetch returns again
FetchOk ==
    /\ pc = "fetch"
    /\ cycle <= MaxCycles
    /\ \E h \in HourlyObjects, d \in DailyObjects, now \in Nows :
         fc' = fetch_open_meteo([hourly |-> h, daily |-> d], now)
    /\ upcoming_hourly' = <<>>
    /\ err' = ""
    /\ pc' = IF Len(fc'.hourly) > 0 THEN "hourly" ELSE "group"
    /\ UNCHANGED <<cycle, by_day, daily_out, acc, call, ret, mqtt, pub, log, conn, store>>

\* main.py:77-91: the fetch raises; the error is logged and the loop sleeps
FetchFail ==
    /\ pc = "fetch"
    /\ cycle <= MaxCycles
    /\ err' = "FetchError"
    /\ pc' = "sleep"
    /\ UNCHANGED <<cycle, fc, upcoming_hourly, by_day, daily_out, acc, call, ret,
                   mqtt, pub, log, conn, store>>

\* main.py:105-134: one iteration of the hourly loop; the record is logged
\* (log_raw and log_features are on, addon_config.py:48-49) before it is
\* kept, and an OSError of the append ends the cycle at main.py:246
HourlyStep ==
    /\ pc = "hourly"
    /\ Len(upcoming_hourly) < Len(fc.hourly)
    /\ LET h == fc.hourly[Len(upcoming_hourly) + 1]
           ts == fromisoformat(h.ts_utc)
           derived == derive_hourly_features(ts, h)
       IN  IF CanAppend
           THEN /\ log' = Appended("hourly")
                /\ upcoming_hourly' = Append(upcoming_hourly, HourlyRec(h, derived))
                /\ pc' = IF Len(upcoming_hourly') = Len(fc.hourly) THEN "group" ELSE "hourly"
                /\ err' = err
           ELSE /\ err' = "OSError"
                /\ pc' = "sleep"
                /\ UNCHANGED <<log, upcoming_hourly>>
    /\ UNCHANGED <<cycle, fc, by_day, daily_out, acc, call, ret, mqtt, pub, conn, store>>

\* main.py:137-141: daily_out and by_day are reset and the records grouped
GroupStep ==
    /\ pc = "group"
    /\ daily_out' = <<>>
    /\ by_day' = GroupByDay(upcoming_hourly, Len(upcoming_hourly))
    /\ pc' = IF Len(by_day') > 0 THEN "fold" ELSE "publish"
    /\ UNCHANGED <<cycle, fc, upcoming_hourly, acc, err, call, ret,
                   mqtt, pub, log, conn, store>>

\* main.py:143-155: the sums of the next date group; float(None) raises
\* TypeError, which the handler at main.py:246 logs as a cycle error
FoldDay ==
    /\ pc = "fold"
    /\ Len(daily_out) < Len(by_day)
    /\ LET g == by_day[Len(daily_out) + 1]
           n == Len(g.recs)
       IN  IF FoldRaises(g.recs, n)
           THEN /\ err' = "TypeError"
                /\ pc' = "sleep"
                /\ acc' = NoAcc
           ELSE /\ acc' = [day |-> g.day] @@ FoldSums(g.recs, n)
                            @@ [cloud_mean |-> CloudMean(FoldSums(g.recs, n).cloud_sum, n)]
                /\ pc' = "merge"
                /\ err' = err
    /\ UNCHANGED <<cycle, fc, upcoming_hourly, by_day, daily_out, call, ret,
                   mqtt, pub, log, conn, store>>

\* main.py:156-186: the provider's daily record is looked up, the aggregate
\* logged and then emitted; an OSError of the append ends the cycle
MergeDay ==
    /\ pc = "merge"
    /\ acc' = NoAcc
    /\ IF CanAppend
       THEN /\ log' = Appended("daily")
            /\ daily_out' = Append(daily_out, DailyRec(acc.day, FindDaily(fc.daily, acc.day), acc))
            /\ pc' = IF Len(daily_out') < Len(by_day) THEN "fold" ELSE "publish"
            /\ err' = err
       ELSE /\ err' = "OSError"
            /\ pc' = "sleep"
            /\ UNCHANGED <<log, daily_out>>
    /\ UNCHANGED <<cycle, fc, upcoming_hourly, by_day, call, ret, mqtt, pub, conn, store>>

\* main.py:188-244: with a connected publisher the messages of the cycle are
\* handed to the client (an exception there is logged at 237-238 and goes no
\* further); cleanup_logs removes only files older than the retention, so the
\* lines of this cycle stay, and its exceptions are dropped at 243-244
EndCycle ==
    /\ pc = "publish"
    /\ IF mqtt.client /\ mqtt.connected
       THEN \E stamp \in PublishStamps :
               pub' = [now |-> <<HourOrd(fromisoformat(stamp))>>,
                       msgs |-> Published(upcoming_hourly, daily_out, stamp)]
       ELSE pub' = pub
    /\ pc' = "sleep"
    /\ UNCHANGED <<cycle, fc, upcoming_hourly, by_day, daily_out, acc, err, call, ret,
                   mqtt, log, conn, store>>

\* main.py:249 (and 90): the loop sleeps update_interval (300 s,
\* addon_config.py:46) and goes back to the top; the locals of the finished
\* cycle are dead (each is assigned again before it is read) and are cleared
\* here
Sleep ==
    /\ pc = "sleep"
    /\ pc' = "top"
    /\ fc' = NoFc
    /\ upcoming_hourly' = <<>>
    /\ by_day' = <<>>
    /\ daily_out' = <<>>
    /\ acc' = NoAcc
    /\ UNCHANGED <<cycle, err, call, ret, mqtt, pub, log, conn, store>>

Next ==
    \/ StartCycle
    \/ FetchOk
    \/ FetchFail
    \/ HourlyStep
    \/ GroupStep
    \/ FoldDay
    \/ MergeDay
    \/ EndCycle
    \/ Sleep

Spec == Init /\ [][Next]_vars

\* the disks of SpecPub: one that never fills and one with room for a single
\* line
DiskBudgets == {None, Num(1)}

\* main.py:49-74 with MQTT enabled (addon_config.py:55) and connect() having
\* returned True
InitPub ==
    /\ pc = "top"
    /\ cycle = 0
    /\ fc = NoFc
    /\ upcoming_hourly = <<>>
    /\ by_day = <<>>
    /\ daily_out = <<>>
    /\ acc = NoAcc
    /\ err = ""
    /\ call = NoCall
    /\ ret = <<>>
    /\ mqtt = [client |-> TRUE, connected |-> TRUE]
    /\ pub = NoPub
    /\ \E free \in DiskBudgets : log = [free |-> free, hourly |-> 0, daily |-> 0]
    /\ conn = NoConn
    /\ store = NoStore

SpecPub == InitPub /\ [][Next]_vars

----------------------------------------------------------------------------
(* mqtt_helper.py:20-53, MQTTPublisher.connect, with the network thread of *)
(* the client and the broker. Time is counted in sleeps of the wait loop   *)
(* (0.2 s each).                                                           *)

\* the arguments of connect: retries, and timeout in sleeps of the wait loop
RetriesValues == {0, 1, 3}
TimeoutValues == {0, 2}

\* the return codes of a CONNACK: accepted, not authorised
ReturnCodes == {0, 5}

\* only conn and the publisher's flag change
ConnFrame ==
    UNCHANGED <<pc, cycle, fc, upcoming_hourly, by_day, daily_out, acc, err, call, ret,
                pub, log, store>>

\* mqtt_helper.py:10-18 and main.py:52-60: a new publisher, connect not yet
\* called; link is the state of the client's connection, online counts the
\* 'online' messages handed to the client, by_rc0 tells whether on_connect
\* has set the flag with rc = 0
InitConnect ==
    /\ pc = "connect"
    /\ cycle = 0
    /\ fc = NoFc
    /\ upcoming_hourly = <<>>
    /\ by_day = <<>>
    /\ daily_out = <<>>
    /\ acc = NoAcc
    /\ err = ""
    /\ call = NoCall
    /\ ret = <<>>
    /\ mqtt = [client |-> TRUE, connected |-> FALSE]
    /\ pub = NoPub
    /\ log = NoLog
    /\ \E r \in RetriesValues, t \in TimeoutValues :
         conn = [pc |-> "idle", retries |-> r, timeout |-> t, attempt |-> 0,
                 waited |-> 0, link |-> "down", online |-> 0, by_rc0 |-> FALSE,
                 result |-> None]
    /\ store = NoStore

\* mqtt_helper.py:21-35
ConnBegin ==
    /\ conn.pc = "idle"
    /\ conn' = [conn EXCEPT !.pc = "loop", !.attempt = 0]
    /\ UNCHANGED mqtt
    /\ ConnFrame

\* mqtt_helper.py:36-37 and 53: the test of the while loop
ConnLoop ==
    /\ conn.pc = "loop"
    /\ conn' = IF conn.attempt < Max(1, conn.retries)
               THEN [conn EXCEPT !.attempt = @ + 1, !.pc = "connecting"]
               ELSE [conn EXCEPT !.result = <<FALSE>>, !.pc = "done"]
    /\ UNCHANGED mqtt
    /\ ConnFrame

\* mqtt_helper.py:39-42: client.connect returns with the CONNECT packet sent
\* and the network thread runs; a connection of an earlier attempt is
\* replaced, with or without a call of on_disconnect
ConnSent ==
    /\ conn.pc = "connecting"
    /\ conn' = [conn EXCEPT !.link = "sent", !.waited = 0, !.pc = "wait"]
    /\ \E c \in {mqtt.connected, FALSE} : mqtt' = [mqtt EXCEPT !.connected = c]
    /\ ConnFrame

\* mqtt_helper.py:39 and 50-51: client.connect raises (host not reachable)
ConnRaises ==
    /\ conn.pc = "connecting"
    /\ conn' = [conn EXCEPT !.pc = "pause"]
    /\ UNCHANGED mqtt
    /\ ConnFrame

\* mqtt_helper.py:43-45: the test of the wait loop and one sleep of 0.2 s
ConnWait ==
    /\ conn.pc = "wait"
    /\ conn' = IF ~mqtt.connected /\ conn.waited < conn.timeout
               THEN [conn EXCEPT !.waited = @ + 1]
               ELSE [conn EXCEPT !.pc = "check"]
    /\ UNCHANGED mqtt
    /\ ConnFrame

\* variant: the flag is not looked at after the wait
ConnCheckBlind ==
    /\ conn.pc = "check"
    /\ conn' = [conn EXCEPT !.pc = "online"]
    /\ UNCHANGED mqtt
    /\ ConnFrame

\* mqtt_helper.py:46
ConnCheck ==
    /\ conn.pc = "check"
    /\ conn' = [conn EXCEPT !.pc = IF mqtt.connected THEN "online" ELSE "pause"]
    /\ UNCHANGED mqtt
    /\ ConnFrame

\* mqtt_helper.py:48-49: 'online' is handed to the client and connect returns
ConnOnline ==
    /\ conn.pc = "online"
    /\ conn' = [conn EXCEPT !.online = @ + 1, !.result = <<TRUE>>, !.pc = "done"]
    /\ UNCHANGED mqtt
    /\ ConnFrame

\* mqtt_helper.py:52
ConnPause ==
    /\ conn.pc = "pause"
    /\ conn' = [conn EXCEPT !.pc = "loop"]
    /\ UNCHANGED mqtt
    /\ ConnFrame

\* mqtt_helper.py:27-28: the network thread gets the CONNACK and runs
\* on_connect
OnConnect ==
    /\ conn.link = "sent"
    /\ \E rc \in ReturnCodes :
         /\ mqtt' = [mqtt EXCEPT !.connected = (rc = 0)]
         /\ conn' = [conn EXCEPT !.link = IF rc = 0 THEN "up" ELSE "refused",
                                 !.by_rc0 = IF rc = 0 THEN TRUE ELSE @]
    /\ ConnFrame

\* mqtt_helper.py:29-30: the connection is closed or lost and the network
\* thread runs on_disconnect
OnDisconnect ==
    /\ conn.link \in {"sent", "up", "refused"}
    /\ mqtt' = [mqtt EXCEPT !.connected = FALSE]
    /\ conn' = [conn EXCEPT !.link = "down"]
    /\ ConnFrame

\* the network thread connects again after a lost connection
Reconnect ==
    /\ conn.link = "down"
    /\ conn.attempt > 0
    /\ conn' = [conn EXCEPT !.link = "sent"]
    /\ UNCHANGED mqtt
    /\ ConnFrame

\* the steps of the thread that called connect
ConnectThread ==
    \/ ConnBegin
    \/ ConnLoop
    \/ ConnSent
    \/ ConnRaises
    \/ ConnWait
    \/ ConnCheck
    \/ ConnOnline
    \/ ConnPause

NextConnect ==
    \/ ConnectThread
    \/ OnConnect
    \/ OnDisconnect
    \/ Reconnect

\* client.connect returns or raises within the socket's timeout and every
\* sleep ends, so the calling thread always takes its next step
SpecConnect == InitConnect /\ [][NextConnect]_vars /\ WF_vars(ConnectThread)

----------------------------------------------------------------------------
(* weather-dashboard/mqtt_listener.py: the DataStore, the client's network *)
(* thread that runs on_message, and the threads of the HTTP handlers       *)
(* (weather-dashboard/main.py:32-44) that call snapshot                    *)

MaxMsgs == 2      \* messages the network thread receives

\* the threads of the HTTP handlers, one snapshot each
Readers == {"r1", "r2"}

\* the messages that arrive: valid tells whether json.loads accepts the payload
Msgs ==
    { [topic |-> <<"hourly", "ghi_w_m2">>, payload |-> ("value" :> v), valid |-> TRUE] :
        v \in {1, 2} }
    \cup { [topic |-> <<"daily", "ghi_daily_total_mj_m2">>,
            payload |-> ("series" :> <<1>>), valid |-> TRUE],
           [topic |-> <<"daily", "today", "sunshine_duration_s">>,
            payload |-> ("value" :> 1), valid |-> TRUE],
           [topic |-> <<"daily", "tomorrow", "sunshine_duration_s">>,
            payload |-> ("value" :> 2), valid |-> TRUE],
           [topic |-> <<"hourly", "ghi_w_m2">>, payload |-> <<>>, valid |-> FALSE] }

\* mqtt_listener.py:70-89, on_message: the store operation a message leads
\* to, None for a payload that is not JSON
Route(msg) ==
    IF ~msg.valid THEN None
    ELSE IF msg.topic[1] = "hourly"
    THEN <<[f |-> "update_now", field |-> "now",
            arg |-> (msg.topic[2] :> msg.payload)]>>
    ELSE IF msg.topic = <<"daily", "ghi_daily_total_mj_m2">>
    THEN <<[f |-> "set_daily_series", field |-> "daily_series",
            arg |-> Get(msg.payload, "series", <<>>)]>>
    ELSE IF msg.topic[2] = "today"
    THEN <<[f |-> "update_daily_bucket", field |-> "daily_today",
            arg |-> (msg.topic[3] :> msg.payload)]>>
    ELSE <<[f |-> "update_daily_bucket", field |-> "daily_tomorrow",
            arg |-> (msg.topic[3] :> msg.payload)]>>

\* the four containers of the store
StoreFields == <<"now", "daily_series", "daily_today", "daily_tomorrow">>

\* the contents of the four containers
Content == [f \in {StoreFields[i] : i \in 1..Len(StoreFields)} |-> store[f]]

\* mqtt_listener.py:19, 23, 28 and 30: the statement under the lock; the
\* dicts are changed in place, the list is replaced
Applied(op) ==
    IF op.f = "set_daily_series" THEN op.arg ELSE Spread(store[op.field], op.arg)

\* variant: a thread goes on whether or not another one holds the lock
MayEnterUnlocked(t) == TRUE

\* threading.Lock: a thread enters `with self.lock` when no thread holds it
MayEnter(t) == store.lock = ""

\* mqtt_listener.py:35-38, dict(x) and list(x): a new object with the
\* elements x has now; obj tells which object a reference points to
CopyOf(field) == [obj |-> "new", val |-> store[field]]

\* what a reference shows when it is read
Deref(ref) == IF ref.obj = "new" THEN ref.val ELSE store[ref.obj]

\* mqtt_listener.py:10-15 and 53-54: an empty store, no thread in it; hist
\* collects the contents the store has had between its operations
InitStore ==
    /\ pc = "serve"
    /\ cycle = 0
    /\ fc = NoFc
    /\ upcoming_hourly = <<>>
    /\ by_day = <<>>
    /\ daily_out = <<>>
    /\ acc = NoAcc
    /\ err = ""
    /\ call = NoCall
    /\ ret = <<>>
    /\ mqtt = NoMqtt
    /\ pub = NoPub
    /\ log = NoLog
    /\ conn = NoConn
    /\ store = [lock |-> "",
                now |-> <<>>, daily_series |-> <<>>,
                daily_today |-> <<>>, daily_tomorrow |-> <<>>,
                recv |-> 0,
                w |-> [pc |-> "idle", op |-> None],
                rd |-> [r \in Readers |-> [pc |-> "idle", snap |-> <<>>, seen |-> <<>>]],
                hist |-> { [f \in {StoreFields[i] : i \in 1..Len(StoreFields)} |-> <<>>] }]

\* only the store changes
StoreFrame ==
    UNCHANGED <<pc, cycle, fc, upcoming_hourly, by_day, daily_out, acc, err, call, ret,
                mqtt, pub, log, conn>>

\* mqtt_listener.py:70-89: the network thread gets a message and on_message
\* routes it
WReceive ==
    /\ store.w.pc = "idle"
    /\ store.recv < MaxMsgs
    /\ \E msg \in Msgs :
         store' = [store EXCEPT !.recv = @ + 1,
                                !.w = [pc |-> IF Route(msg) = None THEN "idle" ELSE "enter",
                                       op |-> Route(msg)]]
    /\ StoreFrame

\* mqtt_listener.py:18, 22, 26: the writer takes the lock
WEnter ==
    /\ store.w.pc = "enter"
    /\ MayEnter("w")
    /\ store' = [store EXCEPT !.lock = "w", !.w.pc = "apply"]
    /\ StoreFrame

\* mqtt_listener.py:19, 23, 27-30: the statement of the operation
WApply ==
    /\ store.w.pc = "apply"
    /\ LET op == store.w.op[1]
           after == [store EXCEPT ![op.field] = Applied(op)]
       IN  store' = [after EXCEPT !.w.pc = "leave",
                                  !.hist = @ \cup
                                      { [f \in DOMAIN Content |-> after[f]] }]
    /\ StoreFrame

\* the end of the with block: the lock is released and the operation returns
WLeave ==
    /\ store.w.pc = "leave"
    /\ store' = [store EXCEPT !.lock = IF @ = "w" THEN "" ELSE @,
                              !.w = [pc |-> "idle", op |-> None]]
    /\ StoreFrame

\* weather-dashboard/main.py:34 and 39: a handler calls snapshot
RCall(r) ==
    /\ store.rd[r].pc = "idle"
    /\ store' = [store EXCEPT !.rd[r].pc = "enter"]
    /\ StoreFrame

\* mqtt_listener.py:33: the reader takes the lock
REnter(r) ==
    /\ store.rd[r].pc = "enter"
    /\ MayEnter(r)
    /\ store' = [store EXCEPT !.lock = r, !.rd[r].pc = "copy"]
    /\ StoreFrame

\* mqtt_listener.py:35-38: the next entry of the returned dict is evaluated
RCopy(r) ==
    /\ store.rd[r].pc = "copy"
    /\ Len(store.rd[r].snap) < Len(StoreFields)
    /\ store' = [store EXCEPT !.rd[r].snap =
                     Append(@, CopyOf(StoreFields[Len(@) + 1]))]
    /\ StoreFrame

\* mqtt_listener.py:34-39: the dict is returned and the lock released; seen
\* keeps what the snapshot showed when it was returned
RReturn(r) ==
    /\ store.rd[r].pc = "copy"
    /\ Len(store.rd[r].snap) = Len(StoreFields)
    /\ store' = [store EXCEPT !.lock = IF @ = r THEN "" ELSE @,
                              !.rd[r].pc = "returned",
                              !.rd[r].seen = [i \in 1..Len(StoreFields) |->
                                                 Deref(store.rd[r].snap[i])]]
    /\ StoreFrame

NextStore ==
    \/ WReceive
    \/ WEnter
    \/ WApply
    \/ WLeave
    \/ \E r \in Readers : RCall(r)
    \/ \E r \in Readers : REnter(r)
    \/ \E r \in Readers : RCopy(r)
    \/ \E r \in Readers : RReturn(r)

SpecStore == InitStore /\ [][NextStore]_vars

----------------------------------------------------------------------------
(* The hourly stage on any record of the input contract: a raw record is a *)
(* dict with ts_utc and any of the optional fields, absent, null or set,   *)
(* possibly carrying fields named like derived ones                        *)

\* the dicts with at most the key k, bound to one of the values vs
Opt(k, vs) == { <<>> } \cup { [x \in {k} |-> v] : v \in vs }

CoreRawRecords ==
    { [ts_utc |-> _iso_z(HourStamps[t])] @@ g @@ n @@ h @@ c @@ p @@ z @@ k :
        t \in 1..Len(HourStamps),
        g \in Opt("ghi_w_m2", GhiValues \cup {Num(0 - 50)}),
        n \in Opt("dni_w_m2", {None, Num(0), Num(300), Num(0 - 5)}),
        h \in Opt("dhi_w_m2", {None, Num(100)}),
        c \in Opt("cloud_cover_pct", {None, Num(40)}),
        p \in Opt("temp_2m_c", {Num(20)}),
        z \in Opt("sun_zenith_deg", {Num(45)}),
        k \in Opt("k_ghi", {Num(5000)}) }

InitCore ==
    /\ pc = "hourly"
    /\ cycle = 1
    /\ \E raw \in CoreRawRecords : fc = [hourly |-> <<raw>>, daily |-> <<>>]
    /\ upcoming_hourly = <<>>
    /\ by_day = <<>>
    /\ daily_out = <<>>
    /\ acc = NoAcc
    /\ err = ""
    /\ call = NoCall
    /\ ret = <<>>
    /\ mqtt = NoMqtt
    /\ pub = NoPub
    /\ log = NoLog
    /\ conn = NoConn
    /\ store = NoStore

NextCore == HourlyStep

SpecCore == InitCore /\ [][NextCore]_vars

----------------------------------------------------------------------------
(* Direct calls of the functions of compute.py, one call per behaviour     *)

ZenithValues == {0, 36, 60, 89, 90, 91, 120, 180}

ErbsCalls ==
    [f : {"erbs_decomposition"},
     ghi : {0 - 50, 0, 1, 220, 500, 1000},
     ghi0 : {0 - 10, 0, 1, 1000, 1300},
     zenith_deg : ZenithValues]

ExtraterrestrialCalls ==
    [f : {"extraterrestrial_horizontal"},
     when_utc : {fromisoformat(HourStamps[2]), fromisoformat(HourStamps[4])},
     zenith_deg : ZenithValues]

ClearskyCalls == [f : {"clearsky_ghi_haurwitz"}, zenith_deg : ZenithValues]

SunshineCalls ==
    [f : {"sunshine_duration_hour_from_ghi"},
     ghi_w_m2 : {None, Num(0 - 5), Num(0), Num(119), Num(120), Num(121), Num(1000)}]

\* the diffuse-fraction step of erbs_decomposition, at and around the
\* breakpoints of the correlation
DiffuseFractionCalls ==
    [f : {"diffuse_fraction"},
     kt : {0, 1000, 2199, 2200, 2201, 5000, 7999, 8000, 8001, 20000}]

InitFn ==
    /\ pc = "call"
    /\ cycle = 0
    /\ fc = NoFc
    /\ upcoming_hourly = <<>>
    /\ by_day = <<>>
    /\ daily_out = <<>>
    /\ acc = NoAcc
    /\ err = ""
    /\ call \in ErbsCalls \cup ExtraterrestrialCalls \cup ClearskyCalls
                 \cup SunshineCalls \cup DiffuseFractionCalls
    /\ ret = <<>>
    /\ mqtt = NoMqtt
    /\ pub = NoPub
    /\ log = NoLog
    /\ conn = NoConn
    /\ store = NoStore

\* the call returns v
Return(v) ==
    /\ ret' = <<v>>
    /\ pc' = "return"
    /\ UNCHANGED <<cycle, fc, upcoming_hourly, by_day, daily_out, acc, err, call,
                   mqtt, pub, log, conn, store>>

CallErbs ==
    /\ pc = "call"
    /\ call.f = "erbs_decomposition"
    /\ Return(erbs_decomposition(call.ghi, call.ghi0, call.zenith_deg))

CallExtraterrestrial ==
    /\ pc = "call"
    /\ call.f = "extraterrestrial_horizontal"
    /\ Return(extraterrestrial_horizontal(call.when_utc, call.zenith_deg))

CallClearsky ==
    /\ pc = "call"
    /\ call.f = "clearsky_ghi_haurwitz"
    /\ Return(clearsky_ghi_haurwitz(call.zenith_deg))

CallSunshine ==
    /\ pc = "call"
    /\ call.f = "sunshine_duration_hour_from_ghi"
    /\ Return(sunshine_duration_hour_from_ghi(call.ghi_w_m2))

CallDiffuseFraction ==
    /\ pc = "call"
    /\ call.f = "diffuse_fraction"
    /\ Return(ErbsDf(call.kt))

NextFn ==
    \/ CallErbs
    \/ CallExtraterrestrial
    \/ CallClearsky
    \/ CallSunshine
    \/ CallDiffuseFraction

SpecFn == InitFn /\ [][NextFn]_vars

----------------------------------------------------------------------------
(* Properties of the hourly stage *)

\* the raw record and the output record of the i-th hour of the cycle
RawAt(i) == fc.hourly[i]
RecAt(i) == upcoming_hourly[i]
Emitted == 1..Len(upcoming_hourly)

\* the Erbs decomposition of the i-th hour's GHI, GHI0 and zenith
ErbsAt(i) ==
    LET l == DeriveLocals(fromisoformat(RawAt(i).ts_utc), RawAt(i))
    IN  erbs_decomposition(l.ghi, l.ghi0, l.zen)

Supplied(raw, k) == Get(raw, k, None) # None
BothSupplied(raw) == Supplied(raw, "dni_w_m2") /\ Supplied(raw, "dhi_w_m2")

\* C1: whenever the provider does not supply both dni_w_m2 and dhi_w_m2, the
\* emitted hourly record carries the Erbs values of DNI and DHI.
C1_MissingComponentsFromErbs ==
    \A i \in Emitted :
        ~BothSupplied(RawAt(i)) =>
            /\ Get(RecAt(i), "dni_w_m2", None) = Num(ErbsAt(i).dni)
            /\ Get(RecAt(i), "dhi_w_m2", None) = Num(ErbsAt(i).dhi)

NumericHourlyFields ==
    {"ghi_w_m2", "dni_w_m2", "dhi_w_m2", "cloud_cover_pct",
     "sun_elevation_deg", "sun_azimuth_deg", "sun_zenith_deg",
     "ghi_cs_w_m2", "k_ghi", "k_dni", "sunshine_duration_s_hour"}

\* C2: every numeric field of every emitted hourly record is a number, never
\* null, whatever optional inputs are absent or null.
C2_NumericFieldsNeverNull ==
    \A i \in Emitted : \A k \in NumericHourlyFields :
        k \in DOMAIN RecAt(i) /\ RecAt(i)[k] # None

\* C4: a record whose raw dni_w_m2 and dhi_w_m2 are both supplied comes out
\* with exactly the provider's values, whatever GHI, GHI0 and zenith are.
C4_PassThrough ==
    \A i \in Emitted :
        BothSupplied(RawAt(i)) =>
            /\ RecAt(i).dni_w_m2 = RawAt(i).dni_w_m2
            /\ RecAt(i).dhi_w_m2 = RawAt(i).dhi_w_m2

\* a pass-through record whose Erbs decomposition would have given other values
C4_Witness ==
    \E i \in Emitted :
        /\ BothSupplied(RawAt(i))
        /\ RawAt(i).dni_w_m2 = Num(300)
        /\ ErbsAt(i).dni > 300
        /\ Num(ErbsAt(i).dhi) # RawAt(i).dhi_w_m2
        /\ RecAt(i).dni_w_m2 = Num(300)

DecompositionOwned == {"dni_w_m2", "dhi_w_m2", "k_ghi", "k_dni", "sunshine_duration_s_hour"}
GeometryAndClearSky == {"sun_elevation_deg", "sun_azimuth_deg", "sun_zenith_deg", "ghi_cs_w_m2"}

----------------------------------------------------------------------------
(* Properties of the daily stage *)

\* the first 10 characters of a timestamp
Prefix10(ts) == [i \in 1..10 |-> ts[i]]

\* the dates of the hourly input, and the hours of one date
HourlyDates == { Prefix10(RecAt(i).ts_utc) : i \in Emitted }
HoursOfDate(date) == { i \in Emitted : Prefix10(RecAt(i).ts_utc) = date }

Aggregates == 1..Len(daily_out)
EmittedDates == { daily_out[k].date_utc : k \in Aggregates }

\* the daily stage of the cycle has run (to its end or to an exception)
DailyStageOver == pc = "publish" \/ (pc = "sleep" /\ err # "FetchError")
Grouped == pc \in {"fold", "merge"} \/ DailyStageOver

\* sum over a set of hours of ghi_w_m2 * 3600 / 1e6 (in 1e-4 MJ/m2), of
\* cloud_cover_pct and of sunshine_duration_s_hour, a null or absent field
\* counting as 0
RECURSIVE SumGhiMJ(_)
SumGhiMJ(S) ==
    IF S = {} THEN 0
    ELSE LET i == CHOOSE x \in S : TRUE
         IN  (OrZero(Get(RecAt(i), "ghi_w_m2", None)) * 3600) \div 100 + SumGhiMJ(S \ {i})

RECURSIVE SumCloud(_)
SumCloud(S) ==
    IF S = {} THEN 0
    ELSE LET i == CHOOSE x \in S : TRUE
         IN  OrZero(Get(RecAt(i), "cloud_cover_pct", None)) + SumCloud(S \ {i})

RECURSIVE SumSunshine(_)
SumSunshine(S) ==
    IF S = {} THEN 0
    ELSE LET i == CHOOSE x \in S : TRUE
         IN  OrZero(Get(RecAt(i), "sunshine_duration_s_hour", None)) + SumSunshine(S \ {i})

\* the provider daily records whose date_utc is the given date
ProviderMatches(date) == { j \in 1..Len(fc.daily) : fc.daily[j].date_utc = date }

\* C3: a null or absent ghi_w_m2 or cloud_cover_pct is never surfaced as an
\* error; it counts as 0.0 in the day's sums and the date's aggregate is emitted.
C3_NullFieldsFoldAsZero ==
    /\ err # "TypeError"
    /\ DailyStageOver =>
         \A date \in HourlyDates :
            \E k \in Aggregates :
                /\ daily_out[k].date_utc = date
                /\ daily_out[k].ghi_daily_total_mj_m2 = Num(SumGhiMJ(HoursOfDate(date)))

\* C6: the GHI total of every aggregate is the sum of ghi_w_m2 * 3600 / 1e6
\* over exactly the hourly records of its date.
C6_DailyTotalIsSumOfDate ==
    \A k \in Aggregates :
        daily_out[k].ghi_daily_total_mj_m2 = Num(SumGhiMJ(HoursOfDate(daily_out[k].date_utc)))

\* GHI 0, 500 and 1000 on one date give 5.4 MJ/m2
C6_Witness ==
    \E k \in Aggregates :
        /\ daily_out[k].ghi_daily_total_mj_m2 = Num(54000)
        /\ { RecAt(i).ghi_w_m2 : i \in HoursOfDate(daily_out[k].date_utc) }
             = {Num(0), Num(500), Num(1000)}

\* C7: once the daily stage is over, the dates of the emitted aggregates are
\* exactly the dates of the hourly records, each once.
C7_OneAggregatePerDate ==
    DailyStageOver =>
        /\ EmittedDates = HourlyDates
        /\ \A k1, k2 \in Aggregates :
              daily_out[k1].date_utc = daily_out[k2].date_utc => k1 = k2

\* the groups that hold the i-th hourly record
GroupsOf(i) ==
    { g \in 1..Len(by_day) : \E j \in 1..Len(by_day[g].recs) : by_day[g].recs[j] = RecAt(i) }

RECURSIVE GroupSizes(_)
GroupSizes(n) == IF n = 0 THEN 0 ELSE Len(by_day[n].recs) + GroupSizes(n - 1)

\* C8: every hourly record is in exactly one group, the group keyed by the
\* first 10 characters of its ts_utc; two records share a group exactly when
\* they share that prefix, and each aggregate is keyed by its group's prefix.
C8_GroupedByDatePrefix ==
    Grouped =>
        /\ \A i \in Emitted :
              /\ Cardinality(GroupsOf(i)) = 1
              /\ \A g \in GroupsOf(i) : by_day[g].day = Prefix10(RecAt(i).ts_utc)
        /\ \A i, j \in Emitted :
              (Prefix10(RecAt(i).ts_utc) = Prefix10(RecAt(j).ts_utc)) <=> (GroupsOf(i) = GroupsOf(j))
        /\ GroupSizes(Len(by_day)) = Len(upcoming_hourly)
        /\ Len(daily_out) <= Len(by_day)
        /\ \A k \in Aggregates : daily_out[k].date_utc = by_day[k].day

\* 10:00 and 23:00 of 2024-06-01 in one group, 2024-06-02T00:00 in another,
\* and both aggregates emitted
C8_Witness ==
    /\ Len(upcoming_hourly) = 3
    /\ RecAt(1).ts_utc = _iso_z(HourStamps[2])
    /\ RecAt(2).ts_utc = _iso_z(HourStamps[3])
    /\ RecAt(3).ts_utc = _iso_z(HourStamps[4])
    /\ Len(by_day) = 2
    /\ by_day[1].day = Day1 /\ by_day[1].recs = <<RecAt(1), RecAt(2)>>
    /\ by_day[2].day = Day2 /\ by_day[2].recs = <<RecAt(3)>>
    /\ Len(daily_out) = 2
    /\ daily_out[1].date_utc = Day1 /\ daily_out[2].date_utc = Day2

\* the provider's daily sunshine figure for a date, None when there is none
ProviderSunshine(date) ==
    IF ProviderMatches(date) = {} THEN None
    ELSE fc.daily[CHOOSE j \in ProviderMatches(date) :
                    \A j2 \in ProviderMatches(date) : j <= j2].sunshine_duration_s

\* C9: sunshine_duration_s is the provider's daily value when that is present
\* and non-zero, and the sum of the day's hourly sunshine otherwise.
C9_SunshinePrecedence ==
    \A k \in Aggregates :
        LET date == daily_out[k].date_utc
            prov == ProviderSunshine(date)
        IN  daily_out[k].sunshine_duration_s =
                IF prov # None /\ prov[1] # 0 THEN prov
                ELSE Num(SumSunshine(HoursOfDate(date)))

\* one aggregate where the provider's figure wins over a different hourly sum,
\* and one where a provider figure of zero gives way to the hourly sum
C9_Witness ==
    /\ \E k \in Aggregates :
          /\ ProviderSunshine(daily_out[k].date_utc) = Num(30000)
          /\ SumSunshine(HoursOfDate(daily_out[k].date_utc)) = 7200
          /\ daily_out[k].sunshine_duration_s = Num(30000)
    /\ \E k \in Aggregates :
          /\ ProviderSunshine(daily_out[k].date_utc) = Num(0)
          /\ daily_out[k].sunshine_duration_s = Num(3600)

ProviderSourced ==
    {"sunrise", "sunset", "temp_day_max_c", "temp_day_min_c",
     "precip_day_total_mm", "wind_day_max_ms"}

\* C10: an aggregate whose date no provider daily record carries has null
\* provider-sourced fields and populated group-derived fields, and a cycle
\* error comes only from a null field of the group being folded, never from
\* the missing match.
C10_NoMatchGivesNullProviderFields ==
    /\ \A k \in Aggregates :
          LET d == daily_out[k]
              H == HoursOfDate(d.date_utc)
          IN  ProviderMatches(d.date_utc) = {} =>
                /\ \A f \in ProviderSourced : d[f] = None
                /\ d.ghi_daily_total_mj_m2 = Num(SumGhiMJ(H))
                /\ d.cloud_cover_day_mean_pct = Num((SumCloud(H) * 100) \div Cardinality(H))
                /\ d.sunshine_duration_s = Num(SumSunshine(H))
    /\ DailyStageOver =>
          \/ /\ err = ""
             /\ Len(daily_out) = Len(by_day)
          \/ /\ err = "TypeError"
             /\ Len(daily_out) < Len(by_day)
             /\ \E j \in 1..Len(by_day[Len(daily_out) + 1].recs) :
                   LET r == by_day[Len(daily_out) + 1].recs[j]
                   IN  r.ghi_w_m2 = None \/ r.cloud_cover_pct = None

\* the provider lists only 2024-06-01 and an aggregate for 2024-06-02 is emitted
C10_Witness ==
    \E k \in Aggregates :
        /\ daily_out[k].date_utc = Day2
        /\ Len(fc.daily) = 1 /\ fc.daily[1].date_utc = Day1
        /\ fc.daily[1].temp_day_max_c # None
        /\ daily_out[k].temp_day_max_c = None
        /\ daily_out[k].sunrise = None
        /\ daily_out[k].ghi_daily_total_mj_m2 = Num(18000)
        /\ daily_out[k].sunshine_duration_s = Num(3600)

\* C11: the cloud mean of every aggregate is the sum of cloud_cover_pct over
\* exactly the hourly records of its date divided by the number of those
\* records, whatever the provider's daily record for that date holds.
C11_CloudMeanIsArithmeticMean ==
    \A k \in Aggregates :
        LET H == HoursOfDate(daily_out[k].date_utc)
        IN  /\ H # {}
            /\ daily_out[k].cloud_cover_day_mean_pct
                  = Num((SumCloud(H) * 100) \div Cardinality(H))

\* a date with a provider daily record and two hours of cloud cover 20 and 40
\* percent: the mean is 30.00
C11_Witness ==
    \E k \in Aggregates :
        /\ ProviderMatches(daily_out[k].date_utc) # {}
        /\ { RecAt(i).cloud_cover_pct : i \in HoursOfDate(daily_out[k].date_utc) }
             = {Num(20), Num(40)}
        /\ daily_out[k].cloud_cover_day_mean_pct = Num(3000)

\* C12: every emitted aggregate has ghi_daily_total_mj_m2 and
\* cloud_cover_day_mean_pct present and not null, with or without a provider
\* daily record of its date.
C12_GroupDerivedFieldsNeverNull ==
    \A k \in Aggregates :
        /\ "ghi_daily_total_mj_m2" \in DOMAIN daily_out[k]
        /\ daily_out[k].ghi_daily_total_mj_m2 # None
        /\ "cloud_cover_day_mean_pct" \in DOMAIN daily_out[k]
        /\ daily_out[k].cloud_cover_day_mean_pct # None

\* two aggregates of one cycle, one with a provider record and one without,
\* both with a GHI total and a cloud mean
C12_Witness ==
    \E k1, k2 \in Aggregates :
        /\ ProviderMatches(daily_out[k1].date_utc) # {}
        /\ daily_out[k1].temp_day_max_c # None
        /\ ProviderMatches(daily_out[k2].date_utc) = {}
        /\ daily_out[k2].temp_day_max_c = None
        /\ \A k \in {k1, k2} :
              /\ daily_out[k].ghi_daily_total_mj_m2 # None
              /\ daily_out[k].cloud_cover_day_mean_pct # None

----------------------------------------------------------------------------
(* Properties of the functions of compute.py *)

Returned == pc = "return" /\ ret # <<>>

\* C13: for GHI <= 0 or GHI0 <= 0 or a zenith of 90 degrees or more,
\* erbs_decomposition returns DNI = 0 and DHI = max(0, GHI).
C13_DegenerateInputsGiveZeroDni ==
    (/\ call.f = "erbs_decomposition"
     /\ Returned
     /\ (call.ghi <= 0 \/ call.ghi0 <= 0 \/ call.zenith_deg >= 90)) =>
        /\ ret[1].dni = 0
        /\ ret[1].dhi = Max(0, call.ghi)

\* C15: for a zenith of 90 degrees or more, 90 included,
\* extraterrestrial_horizontal and clearsky_ghi_haurwitz return exactly 0.
C15_ZeroAtAndBelowHorizon ==
    (/\ call.f \in {"extraterrestrial_horizontal", "clearsky_ghi_haurwitz"}
     /\ Returned
     /\ call.zenith_deg >= 90) =>
        ret[1] = 0

\* C16: the sunshine estimator returns 3600 when GHI is at least 120 W/m2,
\* 120 included, and 0 for a smaller, null or absent GHI, and nothing else.
C16_SunshineThresholdInclusive ==
    (call.f = "sunshine_duration_hour_from_ghi" /\ Returned) =>
        /\ ret[1] \in {0, 3600}
        /\ ret[1] = 3600 <=> (call.ghi_w_m2 # None /\ call.ghi_w_m2[1] >= 120)

\* the boundary value 120 gives 3600 seconds
C16_Witness ==
    /\ call.f = "sunshine_duration_hour_from_ghi"
    /\ call.ghi_w_m2 = Num(120)
    /\ ret = <<3600>>

\* C17 as stated: at kt = 0.22 the linear segment and the quartic, and at
\* kt = 0.8 the quartic and the constant 0.165, agree to within rounding (here
\* the 4e-6 that the four rounded products of the quartic can lose).
C17_SegmentsMeetWithinRounding ==
    (call.f = "diffuse_fraction" /\ Returned) =>
        /\ call.kt = 2200 =>
              (ret[1] - ErbsQuartic(call.kt) <= 4 /\ ErbsQuartic(call.kt) - ret[1] <= 4)
        /\ call.kt = 8000 =>
              (ret[1] - 165000 <= 4 /\ 165000 - ret[1] <= 4)

\* C17 as amended: df steps down at each breakpoint; the segment below
\* exceeds the segment above by more than 2.5e-4 and less than 3e-4, at
\* kt = 0.22 and at kt = 0.8.
C17_SegmentsMeetWithinThreeTenThousandths ==
    (call.f = "diffuse_fraction" /\ Returned) =>
        /\ call.kt = 2200 =>
              (ret[1] - ErbsQuartic(call.kt) > 250 /\ ret[1] - ErbsQuartic(call.kt) < 300)
        /\ call.kt = 8000 =>
              (ret[1] - 165000 > 250 /\ ret[1] - 165000 < 300)

\* df at kt = 0.22 is 0.9802 from the linear segment, the quartic gives 0.979927
C17_Witness ==
    /\ call.f = "diffuse_fraction"
    /\ call.kt = 2200
    /\ ret = <<980200>>
    /\ ErbsQuartic(call.kt) = 979927

\* the locals of the derivation of the i-th hour
LocalsAt(i) == DeriveLocals(fromisoformat(RawAt(i).ts_utc), RawAt(i))

\* C14: for a non-negative GHI and DNI, the emitted k_ghi and k_dni lie in
\* [0, 2]; k_ghi is 0 when GHI_cs <= 0, and k_dni is 0 when GHI_cs <= 0 or
\* cosZ <= 0.
C14_ClearnessIndicesClamped ==
    \A i \in Emitted :
        (LocalsAt(i).ghi >= 0 /\ LocalsAt(i).dni >= 0) =>
            /\ RecAt(i).k_ghi # None /\ RecAt(i).k_dni # None
            /\ 0 <= RecAt(i).k_ghi[1] /\ RecAt(i).k_ghi[1] <= 20000
            /\ 0 <= RecAt(i).k_dni[1] /\ RecAt(i).k_dni[1] <= 20000
            /\ RecAt(i).ghi_cs_w_m2[1] <= 0 =>
                  (RecAt(i).k_ghi = Num(0) /\ RecAt(i).k_dni = Num(0))
            /\ CosZ(RecAt(i).sun_zenith_deg[1]) <= 0 => RecAt(i).k_dni = Num(0)

\* a low sun with a GHI far above the clear-sky value: both ratios exceed 2
\* and both indices come out as 2
C14_Witness ==
    \E i \in Emitted :
        /\ LocalsAt(i).ghi > 0 /\ LocalsAt(i).dni > 0
        /\ LocalsAt(i).k_ghi > 20000 /\ LocalsAt(i).k_dni > 20000
        /\ RecAt(i).k_ghi = Num(20000)
        /\ RecAt(i).k_dni = Num(20000)

IrradianceFields == {"ghi_cs_w_m2", "dni_w_m2", "dhi_w_m2"}

\* C19: every irradiance value of every emitted hourly record is >= 0,
\* whatever the raw record holds.
C19_IrradianceNonNegative ==
    \A i \in Emitted : \A k \in IrradianceFields :
        (k \in DOMAIN RecAt(i) /\ RecAt(i)[k] # None) => RecAt(i)[k][1] >= 0

----------------------------------------------------------------------------
(* Order of the hourly batch *)

\* the fetched hourly list rearranged by a permutation p of its indices
Permuted(p) == [i \in 1..Len(fc.hourly) |-> fc.hourly[p[i]]]

SetOf(seq) == { seq[i] : i \in 1..Len(seq) }

\* C20: whatever the order of the hourly batch, every hour gets the same
\* derived record and the cycle emits the same aggregate for every date.
C20_OrderOfHoursIrrelevant ==
    DailyStageOver =>
        \A p \in Permutations(1..Len(fc.hourly)) :
            /\ \A i \in 1..Len(fc.hourly) : DeriveBatch(Permuted(p))[i] = RecAt(p[i])
            /\ SetOf(CycleDaily(Permuted(p), fc.daily)) = SetOf(daily_out)

----------------------------------------------------------------------------
(* Energy balance of the decomposition *)

\* C25: in the non-degenerate branch (GHI > 0, GHI0 > 0, cosZ >= 1e-6, which
\* among whole degrees is a zenith below 90) 0 <= DHI <= GHI, DNI >= 0 and
\* DHI + DNI * cosZ = GHI, to within the one unit of DNI the division rounds
\* off.
C25_ErbsConservesEnergy ==
    (/\ call.f = "erbs_decomposition"
     /\ Returned
     /\ call.ghi > 0 /\ call.ghi0 > 0 /\ call.zenith_deg < 90) =>
        LET dni == ret[1].dni
            dhi == ret[1].dhi
            cosz == CosZ(call.zenith_deg)
            beam == (call.ghi - dhi) * 1000000
        IN  /\ 0 <= dhi /\ dhi <= call.ghi
            /\ dni >= 0
            /\ dni * cosz <= beam
            /\ beam < (dni + 1) * cosz

\* GHI 500 under GHI0 1000 at a zenith of 60 degrees: DHI 329, DNI 342, and
\* 329 + 342 * 0.5 = 500
C25_Witness ==
    /\ call.f = "erbs_decomposition"
    /\ call.ghi = 500 /\ call.ghi0 = 1000 /\ call.zenith_deg = 60
    /\ ret = <<[dni |-> 342, dhi |-> 329]>>

----------------------------------------------------------------------------
(* The main loop                                                           *)

\* the positions of the loop body of main.py:75-249
LoopPositions == {"top", "fetch", "hourly", "group", "fold", "merge", "publish", "sleep"}

\* the stages in which an exception reaches the handlers of main.py:88 and 246
RaisingStages == {"fetch", "hourly", "fold", "merge"}

\* the program is at no position of the loop, or at one whose step cannot be
\* taken (the top and the fetch can, up to the explored number of cycles)
Halted ==
    \/ pc \notin LoopPositions
    \/ pc = "hourly" /\ Len(upcoming_hourly) >= Len(fc.hourly)
    \/ pc = "fold" /\ Len(daily_out) >= Len(by_day)
    \/ pc = "merge" /\ acc = NoAcc

\* C21: no failure inside a cycle ends the main loop: every step leaves the
\* program at a position of the loop from which it can go on; a step of the
\* fetch, of the hourly loop or of the daily stage that raises goes to the
\* sleep, the sleep goes back to the top of the loop with the counter as it
\* was, and the top starts the next cycle with the counter one higher.
C21_FailuresNeverEndTheLoop ==
    [][ /\ ~Halted'
        /\ (pc \in RaisingStages /\ err' # "" => pc' = "sleep")
        /\ (pc = "sleep" => pc' = "top" /\ cycle' = cycle)
        /\ (pc = "top" => pc' = "fetch" /\ cycle' = cycle + 1) ]_vars

\* a cycle whose daily stage raised was followed by the start of the next one
C21_Witness ==
    pc = "fetch" /\ cycle = 2 /\ err = "TypeError"

\* C22: messages are handed to the client only once the cycle has built all
\* its hourly records and all its aggregates: before the publish stage is
\* over nothing of the cycle is published, and a cycle that published has
\* a record for every fetched hour, an aggregate for every date group and no
\* error; a cycle ended by an error publishes nothing, and the hourly lines
\* it logged, one per record it built, are still in the log.
C22_PublishOnlyAfterBuild ==
    /\ pc \in {"fetch", "hourly", "group", "fold", "merge", "publish"} => pub = NoPub
    /\ pub # NoPub => err = ""
    /\ pc = "sleep" /\ pub # NoPub =>
          /\ Len(upcoming_hourly) = Len(fc.hourly)
          /\ by_day = GroupByDay(upcoming_hourly, Len(upcoming_hourly))
          /\ Len(daily_out) = Len(by_day)
    /\ pc = "sleep" /\ err # "" =>
          /\ pub = NoPub
          /\ log.hourly = Len(upcoming_hourly)

\* the daily stage of a cycle with a connected publisher raised after two
\* hourly records were built and logged: nothing was published
C22_Witness ==
    /\ pc = "sleep"
    /\ mqtt.connected
    /\ err = "TypeError"
    /\ log.hourly = 2
    /\ Len(upcoming_hourly) = 2
    /\ pub = NoPub

----------------------------------------------------------------------------
(* The current hour                                                        *)

\* the fetched hours, in provider order, that are at or after the hour the
\* clock read in the publish stage
AtOrAfterNow ==
    { i \in 1..Len(fc.hourly) : HourOrd(fromisoformat(fc.hourly[i].ts_utc)) >= pub.now[1] }

\* the positions of the hourly messages among the messages of the cycle
HourlyPublished == { k \in 1..Len(pub.msgs) : pub.msgs[k].topic[1] = "hourly" }

\* the least element of a non-empty set of positions
Least(I) == CHOOSE i \in I : \A j \in I : i <= j

\* C26: after a publish stage, the hourly messages all carry the time and
\* the values of one record, the first in provider order whose hour is at or
\* after the hour the clock read, one message per hourly metric; when no
\* record is that late there is no hourly message; in both cases the daily
\* GHI series of all the aggregates of the cycle is published retained.
C26_CurrentHourIsFirstAtOrAfterNow ==
    pc = "sleep" /\ pub # NoPub =>
        /\ IF AtOrAfterNow = {}
           THEN HourlyPublished = {}
           ELSE LET r == upcoming_hourly[Least(AtOrAfterNow)]
                IN  /\ { pub.msgs[k].topic[2] : k \in HourlyPublished }
                          = { HourlyMetrics[m] : m \in 1..Len(HourlyMetrics) }
                    /\ Cardinality(HourlyPublished) = Len(HourlyMetrics)
                    /\ r.ts_utc = fc.hourly[Least(AtOrAfterNow)].ts_utc
                    /\ \A k \in HourlyPublished :
                          /\ pub.msgs[k].payload.ts_utc = r.ts_utc
                          /\ pub.msgs[k].payload.value = r[pub.msgs[k].topic[2]]
        /\ \E k \in 1..Len(pub.msgs) :
              /\ pub.msgs[k].topic = <<"daily", "ghi_daily_total_mj_m2">>
              /\ pub.msgs[k].retain
              /\ pub.msgs[k].payload.series
                    = [i \in 1..Len(daily_out) |->
                         [date_utc |-> daily_out[i].date_utc,
                          value |-> daily_out[i].ghi_daily_total_mj_m2]]

\* the clock read 10:00 in the publish stage of a cycle that fetched 07:00 and
\* 10:00: the hourly messages carry the second record
C26_Witness ==
    /\ pc = "sleep"
    /\ pub.now = <<HourOrd(fromisoformat(HourStamps[2]))>>
    /\ Len(upcoming_hourly) >= 2
    /\ fc.hourly[1].ts_utc = _iso_z(HourStamps[1])
    /\ fc.hourly[2].ts_utc = _iso_z(HourStamps[2])
    /\ pub.msgs[1].topic = <<"hourly", "ghi_w_m2">>
    /\ pub.msgs[1].payload.ts_utc = _iso_z(HourStamps[2])

----------------------------------------------------------------------------
(* MQTTPublisher.connect                                                   *)

\* C23: connect returns, having made at most max(1, retries) attempts; it
\* returns True only after on_connect has set the flag with rc = 0, and
\* 'online' is handed to the client exactly then (once); it returns False
\* only after the last attempt, with nothing published.
C23_ConnectTerminatesWithinRetries ==
    /\ [](/\ conn.attempt <= Max(1, conn.retries)
          /\ conn.waited <= conn.timeout
          /\ (conn.online > 0 <=> conn.result = <<TRUE>>)
          /\ conn.online <= 1
          /\ (conn.result = <<TRUE>> => conn.by_rc0 /\ conn.attempt >= 1)
          /\ (conn.result = <<FALSE>> => conn.attempt = Max(1, conn.retries))
          /\ (conn.result # None <=> conn.pc = "done"))
    /\ <>(conn.pc = "done")

\* with retries = 3 the first attempt was refused and the second accepted:
\* connect returned True on its second attempt
C23_Witness ==
    /\ conn.pc = "done"
    /\ conn.retries = 3
    /\ conn.attempt = 2
    /\ conn.result = <<TRUE>>
    /\ conn.online = 1

----------------------------------------------------------------------------
(* The DataStore under concurrent use                                      *)

\* what the snapshot returned to reader r shows now, by container
Shown(r) ==
    [f \in DOMAIN Content |->
        Deref(store.rd[r].snap[CHOOSE i \in 1..Len(StoreFields) : StoreFields[i] = f])]

\* C24: a snapshot that was returned shows contents the store had between
\* two of its operations (all four containers as they were at one such
\* moment), and it shows now what it showed when it was returned, whatever
\* update_now, set_daily_series or update_daily_bucket did since.
C24_SnapshotsAtomicAndStable ==
    \A r \in Readers :
        store.rd[r].pc = "returned" =>
            /\ Shown(r) \in store.hist
            /\ \A i \in 1..Len(StoreFields) :
                  Deref(store.rd[r].snap[i]) = store.rd[r].seen[i]

\* a snapshot taken after the first GHI message still shows that message
\* after the second one replaced it in the store
C24_Witness ==
    /\ store.rd["r1"].pc = "returned"
    /\ Shown("r1").now = ("ghi_w_m2" :> ("value" :> 1))
    /\ store.now = ("ghi_w_m2" :> ("value" :> 2))
    /\ store.w.pc = "idle"

=============================================================================
